---- MODULE Spec2Model ----
(***************************************************************************)
(* Model of lolbin-detection-system/tray-app/lolbin_tray_app.py: the tray  *)
(* application that polls a backend for alert records, de-duplicates them  *)
(* in the global set seen_alerts and shows one popup per new alert.        *)
(*                                                                         *)
(* Strings are TLA+ strings (Len, \o and SubSeq work on them in TLC).      *)
(* A JSON value is tagged with its kind, so that the model keeps what      *)
(* Python does with a string, a number and null apart.                     *)
(***************************************************************************)
EXTENDS Integers, Sequences, FiniteSets, Bags, TLC

(* ------------------------------------------------------------------ *)
(* Bounds of the model                                                  *)
(* ------------------------------------------------------------------ *)

\* Longest response body (number of alert records) the backend returns.
MaxResp == 2

\* Largest reading of the wall clock (datetime.now()).
MaxClock == 1

\* Events in one run that open or close a window or a browser page: user
\* actions (menu entries other than "Check for Alerts Now" and "Exit", popup
\* buttons, window close) and expiries of the timer of an open popup.
MaxUi == 1

(* ------------------------------------------------------------------ *)
(* Configuration (lines 15-20) and literals of the code                 *)
(* ------------------------------------------------------------------ *)

DASHBOARD_URL == "http://localhost:8080"

\* response.status_code == 200 (line 106)
HTTP_OK == 200

\* command[:50], len(command) > 50 (line 129)
TRUNC_LEN == 50

(* ------------------------------------------------------------------ *)
(* JSON / Python values                                                 *)
(* ------------------------------------------------------------------ *)

StrV(s) == [kind |-> "str", s |-> s]
IntV(i) == [kind |-> "int", n |-> i]
NoneV   == [kind |-> "null"]

IsStr(v) == v.kind = "str"

\* str(v), as an f-string field renders a value
PyStr(v) ==
    CASE v.kind = "str"  -> v.s
      [] v.kind = "int"  -> ToString(v.n)
      [] v.kind = "null" -> "None"

\* Python truthiness of a value (`if alert_id:`)
Truthy(v) ==
    CASE v.kind = "str"  -> v.s # ""
      [] v.kind = "int"  -> v.n # 0
      [] v.kind = "null" -> FALSE

\* dict.get(key, default)
DictGet(d, key, default) == IF key \in DOMAIN d THEN d[key] ELSE default

\* s[:k]: the slice clamps at the end of the string
SlicePrefix(s, k) == SubSeq(s, 1, IF Len(s) < k THEN Len(s) ELSE k)

\* index of the last occurrence of sep (one character) in s[1..i], 0 if none
RECURSIVE LastIndexOf(_, _, _)
LastIndexOf(s, sep, i) ==
    IF i = 0 THEN 0
    ELSE IF SubSeq(s, i, i) = sep THEN i
    ELSE LastIndexOf(s, sep, i - 1)

\* s.split(sep)[-1]
SplitLast(s, sep) == SubSeq(s, LastIndexOf(s, sep, Len(s)) + 1, Len(s))

(* ------------------------------------------------------------------ *)
(* What check_for_alerts computes for one alert record                  *)
(* ------------------------------------------------------------------ *)

\* alert['process_id'] raises KeyError when the key is missing (line 112)
HasProcessId(alert) == "process_id" \in DOMAIN alert

\* f"alert-{alert['process_id']}-{alert.get('timestamp', '')}" (line 112)
AlertId(alert) ==
    "alert-" \o PyStr(alert["process_id"]) \o "-"
             \o PyStr(DictGet(alert, "timestamp", StrV("")))

\* A bug: no test against seen_alerts.
AlwaysNew(alert_id, seen) == TRUE

\* alert_id not in seen_alerts (line 115)
IsNewAlert(alert_id, seen) == alert_id \notin seen

\* alert.get('executable_path', '').split('\\')[-1] (line 120)
ProcessName(alert) ==
    SplitLast(DictGet(alert, "executable_path", StrV("")).s, "\\")

\* alert.get('reason', f"Suspicious {process} execution detected") (line 121)
Reason(alert) ==
    DictGet(alert, "reason",
            StrV("Suspicious " \o ProcessName(alert) \o " execution detected"))

\* alert.get('command_line', '') (line 122)
Command(alert) == DictGet(alert, "command_line", StrV(""))

\* A bug: the marker is added from 50 characters on, not from 51.
TruncatedFromLimit(command) ==
    SlicePrefix(command, TRUNC_LEN)
        \o (IF Len(command) >= TRUNC_LEN THEN "..." ELSE "")

\* {command[:50]}{'...' if len(command) > 50 else ''} (line 129)
TruncatedCommand(command) ==
    SlicePrefix(command, TRUNC_LEN)
        \o (IF Len(command) > TRUNC_LEN THEN "..." ELSE "")

\* f"LOLBin Alert: {process}" (line 128)
NotificationTitle(alert) == "LOLBin Alert: " \o ProcessName(alert)

\* f"{reason}\n\nCommand: {...}" (line 129)
NotificationMessage(alert) ==
    PyStr(Reason(alert)) \o "\n\nCommand: " \o TruncatedCommand(Command(alert).s)

\* The exception lines 119-131 raise for this record, "" when they raise none:
\* .split on a value that is no string, slicing or len() of one.
ExtractRaises(alert) ==
    IF ~IsStr(DictGet(alert, "executable_path", StrV(""))) THEN "AttributeError"
    ELSE IF ~IsStr(Command(alert)) THEN "TypeError"
    ELSE ""

(* ------------------------------------------------------------------ *)
(* The environment: what the backend may return                         *)
(* ------------------------------------------------------------------ *)

\* The record of the specification's scenario: every field present.
AlertFull ==
    [process_id      |-> IntV(1234),
     timestamp       |-> StrV("2024-05-01T10:00:00"),
     executable_path |-> StrV("C:\\Windows\\System32\\certutil.exe"),
     command_line    |-> StrV("certutil -urlcache -f http://x -split -f payload.exe"),
     reason          |-> StrV("Suspicious certutil execution")]

\* Only process_id: every optional field is missing.
AlertBare == [process_id |-> IntV(4321)]

\* Another process_id and another timestamp than AlertFull, and a
\* command_line that is JSON null.
AlertDashed ==
    [process_id      |-> StrV("1234-2024"),
     timestamp       |-> StrV("05-01T10:00:00"),
     executable_path |-> StrV("C:\\Windows\\System32\\mshta.exe"),
     command_line    |-> NoneV,
     reason          |-> StrV("Suspicious mshta execution")]

\* No process_id.
AlertNoPid ==
    [timestamp       |-> StrV("t3"),
     executable_path |-> StrV("C:\\Windows\\regsvr32.exe"),
     command_line    |-> StrV("regsvr32 /s /u scrobj.dll")]

Alerts == {AlertFull, AlertBare, AlertDashed, AlertNoPid}

\* Outcomes of requests.get(...) and response.json() (lines 105-107): a
\* transport failure raises; otherwise a status code and a body that is a
\* JSON array, another JSON value, or no JSON at all.
HttpOutcomes ==
    {[kind |-> "transport"]}
      \cup [kind : {"http"}, status : {200, 500}, body : {"array", "number", "invalid"}]

(* ------------------------------------------------------------------ *)
(* State                                                                *)
(* ------------------------------------------------------------------ *)

\* The threads that run check_for_alerts: the loop of alert_check_thread
\* (line 163) and the tray's thread, through "Check for Alerts Now" (line 148).
Threads == {"sched", "forced"}

VARIABLES
    running,          \* the process is Running (icon.run() has not returned)
    seen_alerts,      \* line 23
    last_check_time,  \* line 24, as a clock reading
    popups,           \* the bag of show_notification calls so far, each with
                      \* the state of its windows
    browser,          \* the URL webbrowser.open was last called with, "" if never
    cyc,              \* per thread: where it is in check_for_alerts
    ui                \* events on the menu and the popups so far (see MaxUi)

vars == <<running, seen_alerts, last_check_time, popups, browser, cyc, ui>>

NoAlert == [none |-> TRUE]

\* A thread outside check_for_alerts. In it: pc is "loop" (at `for`, n records
\* of the response consumed), "new" (line 116) or "ret" (line 142, with how
\* the cycle went: "ok", "skip" for a status other than 200, "error" for a
\* caught exception); a thread that an exception has left is "dead". status
\* is response.status_code (0 without a response), alert the loop variable
\* (kept while the code still reads it, and at an exception raised on it).
\* onlyOld records that every record the response has held so far had its
\* identity in seen_alerts when the loop took it. calls is the number of
\* invocations of check_for_alerts the thread has in progress.
Idle ==
    [pc |-> "idle", status |-> 0, n |-> 0, alert |-> NoAlert, outcome |-> "",
     onlyOld |-> TRUE, calls |-> 0]

\* show_notification(title, message, alert_id) called on `thread`. popup:
\* the Toplevel window is open. root: the hidden window notification_window
\* of this call is alive, and the call is in its mainloop (line 91). timer:
\* the callback of popup.after (line 85) is pending. dflt: notification_window
\* is tkinter's default root.
Popup(title, message, alert_id, thread) ==
    [title |-> title, message |-> message, alert_id |-> alert_id,
     thread |-> thread, popup |-> TRUE, root |-> TRUE, timer |-> TRUE,
     dflt |-> FALSE]

\* tkinter has a default root: tk.Tk() (line 49) makes its window the default
\* root when there is none, and destroying that window leaves none.
HasDefaultRoot(bag) == \E p \in DOMAIN bag : p.dflt

\* The windows after lines 49-91 have run for the call p: notification_window
\* becomes the default root if there is none. tk.Toplevel() (line 53) names no
\* master, so the popup is a child of the default root, whichever call made it.
Shown(bag, p) ==
    bag (+) SetToBag({[p EXCEPT !.dflt = ~HasDefaultRoot(bag)]})

\* The thread that runs the calls of caller t: the thread of
\* alert_check_thread (line 168) for the timer loop, the thread of icon.run()
\* (line 173) for the menu callbacks.
RunsOn(t) == IF t = "forced" THEN "tray" ELSE "poller"

\* A bug: show_notification is called in the thread of check_for_alerts.
RunsInCaller(t) == RunsOn(t)

\* The notification of a new alert runs in a thread of its own (lines
\* 125-134), whichever thread runs check_for_alerts.
NotifierThread(t) == "worker"

\* The thread `thread` is inside a call of show_notification, in mainloop
\* (line 91), which returns when the hidden root of the call is destroyed.
InMainloop(thread, bag) == \E p \in DOMAIN bag : p.thread = thread /\ p.root

\* The startup notification (lines 177-186).
StartupPopup ==
    Popup("LOLBin Monitor Active",
          "The LOLBin detection system is now running in the background. "
            \o "You will be notified of any suspicious activity.",
          NoneV, "worker")

\* The About notification (lines 149-151), run by the tray's thread itself.
AboutPopup ==
    Popup("About LOLBin Monitor",
          "LOLBin Monitor Tray App\nVersion 1.0\n\nMonitoring for suspicious activity.",
          NoneV, "tray")

\* The state when icon.run() starts (line 173): the startup notification has
\* been dispatched and the polling thread started.
Init ==
    /\ running = TRUE
    /\ seen_alerts = {}
    /\ last_check_time = 0
    /\ popups = Shown(EmptyBag, StartupPopup)
    /\ browser = ""
    /\ cyc = [t \in Threads |-> Idle]
    /\ ui = 0

(* ------------------------------------------------------------------ *)
(* check_for_alerts (lines 100-142), run by thread t                    *)
(* ------------------------------------------------------------------ *)

\* A bug: the status of the response is not looked at.
StatusIgnored(status) == TRUE

\* response.status_code == 200 (line 106)
StatusOk(status) == status = HTTP_OK

\* A bug: the exception is not caught and ends the thread that called.
Uncaught(t, c) == [c EXCEPT ![t].pc = "dead"]

\* An exception reaches `except Exception` (lines 139-140): it is printed and
\* the function goes on to `return True`.
Caught(t, c) == [c EXCEPT ![t].pc = "ret", ![t].outcome = "error"]

\* The state of thread t after requests.get, the status test and
\* response.json() (lines 105-107) with the outcome resp.
AfterGet(t, resp) ==
    LET in == [cyc EXCEPT ![t].calls = @ + 1]
    IN IF resp.kind = "transport" THEN Caught(t, in)
       ELSE LET got == [in EXCEPT ![t].status = resp.status]
            IN IF ~StatusOk(resp.status)
               THEN [got EXCEPT ![t].pc = "ret", ![t].outcome = "skip"]
               ELSE IF resp.body # "array" THEN Caught(t, got)
               ELSE [got EXCEPT ![t].pc = "loop"]

\* A bug: the caller does not wait for its call to return before it calls
\* again.
CallsAnyTime(t) == TRUE

\* The caller is sequential: the timer loop calls, waits for the return, then
\* sleeps (lines 164-166); the tray's thread runs one menu callback at a time.
CanCall(t) == cyc[t].pc = "idle"

\* The caller enters check_for_alerts, the timer loop after its sleep (lines
\* 164-166) or the tray through "Check for Alerts Now" (line 148), and the
\* request is made (lines 104-107).
CheckCall(t) ==
    /\ running
    /\ ~InMainloop(RunsOn(t), popups)
    /\ CanCall(t)
    /\ \E resp \in HttpOutcomes : cyc' = AfterGet(t, resp)
    /\ UNCHANGED <<running, seen_alerts, last_check_time, popups, browser, ui>>

\* A bug: the loop steps over a record.
SkipsOne(n) == n + 2

\* `for alert in alerts` (line 110) goes to the next record of the response.
Advance(n) == n + 1

\* The state of thread t after the loop has taken `alert` from the response
\* and tested it (lines 110-115).
AfterTest(t, alert) ==
    LET taken == [cyc EXCEPT ![t].alert = alert]
    IN IF ~HasProcessId(alert)
       THEN Caught(t, [taken EXCEPT ![t].onlyOld = FALSE])
       ELSE LET old == [taken EXCEPT ![t].onlyOld =
                                       @ /\ AlertId(alert) \in seen_alerts]
            IN IF IsNewAlert(AlertId(alert), seen_alerts)
               THEN [old EXCEPT ![t].pc = "new"]
               ELSE [old EXCEPT ![t].n = Advance(@), ![t].alert = NoAlert]

\* One turn of `for alert in alerts` up to the test of line 115. The model
\* draws the records of the response as the loop reaches them: a response is
\* any sequence of at most MaxResp records of Alerts.
CheckAlert(t) ==
    /\ running
    /\ ~InMainloop(RunsOn(t), popups)
    /\ cyc[t].pc = "loop"
    /\ cyc[t].n < MaxResp
    /\ \E alert \in Alerts : cyc' = AfterTest(t, alert)
    /\ UNCHANGED <<running, seen_alerts, last_check_time, popups, browser, ui>>

\* A bug: the set is rebuilt from the new identity alone.
SeenAddReplaces(seen, alert_id) == {alert_id}

\* seen_alerts.add(alert_id) (line 116)
SeenAdd(seen, alert_id) == seen \cup {alert_id}

\* Lines 116-134 for a new alert: the identity is added, the details are
\* extracted, and the notification thread is created and started (start()
\* raises RuntimeError when no thread can be created).
CheckNotify(t) ==
    /\ running
    /\ ~InMainloop(RunsOn(t), popups)
    /\ cyc[t].pc = "new"
    /\ LET alert    == cyc[t].alert
           alert_id == AlertId(alert)
       IN /\ seen_alerts' = SeenAdd(seen_alerts, alert_id)
          /\ IF ExtractRaises(alert) # ""
             THEN /\ cyc' = Caught(t, cyc)
                  /\ popups' = popups
             ELSE \/ /\ popups' = Shown(popups,
                                         Popup(NotificationTitle(alert),
                                               NotificationMessage(alert),
                                               StrV(alert_id),
                                               NotifierThread(t)))
                     /\ cyc' = [cyc EXCEPT ![t].pc = "loop",
                                           ![t].n = Advance(@),
                                           ![t].alert = NoAlert]
                  \/ /\ popups' = popups
                     /\ cyc' = Caught(t, cyc)
    /\ UNCHANGED <<running, last_check_time, browser, ui>>

\* The loop is through: last_check_time = datetime.now() (line 137). The
\* clock has not gone back since it was last read.
CheckFinish(t) ==
    /\ running
    /\ ~InMainloop(RunsOn(t), popups)
    /\ cyc[t].pc = "loop"
    /\ \E now \in last_check_time .. MaxClock :
         last_check_time' = now
    /\ cyc' = [cyc EXCEPT ![t].pc = "ret", ![t].outcome = "ok"]
    /\ UNCHANGED <<running, seen_alerts, popups, browser, ui>>

\* return True (line 142): back in the caller, which sleeps (line 166) or
\* returns to the tray's run-loop.
CheckReturn(t) ==
    /\ running
    /\ ~InMainloop(RunsOn(t), popups)
    /\ cyc[t].pc = "ret"
    /\ cyc' = [cyc EXCEPT ![t] = Idle]
    /\ UNCHANGED <<running, seen_alerts, last_check_time, popups, browser, ui>>

(* ------------------------------------------------------------------ *)
(* The tray menu (lines 144-153)                                        *)
(* ------------------------------------------------------------------ *)

\* The tray's thread runs the menu callbacks itself: it serves the menu only
\* when it is in none of them.
TrayFree ==
    /\ cyc["forced"].pc = "idle"
    /\ ~InMainloop("tray", popups)

\* "Open Dashboard" (line 147)
OpenDashboard ==
    /\ running
    /\ TrayFree
    /\ ui < MaxUi
    /\ ui' = ui + 1
    /\ browser' = DASHBOARD_URL
    /\ UNCHANGED <<running, seen_alerts, last_check_time, popups, cyc>>

\* "About" (lines 149-151): show_notification runs on the tray's thread.
About ==
    /\ running
    /\ TrayFree
    /\ ui < MaxUi
    /\ ui' = ui + 1
    /\ popups' = Shown(popups, AboutPopup)
    /\ UNCHANGED <<running, seen_alerts, last_check_time, browser, cyc>>

\* "Check for Alerts Now" (line 148)
CheckNow == TrayFree /\ CheckCall("forced")

\* A bug: the threads are not daemon threads, and go on when icon.run()
\* has returned.
StopsTrayOnly ==
    /\ running' = FALSE
    /\ UNCHANGED <<seen_alerts, last_check_time, popups, cyc, browser, ui>>

\* The process ends: its globals, its threads and its windows go with it.
Terminate ==
    /\ running' = FALSE
    /\ seen_alerts' = {}
    /\ last_check_time' = 0
    /\ popups' = EmptyBag
    /\ cyc' = [t \in Threads |-> Idle]
    /\ UNCHANGED <<browser, ui>>

\* "Exit" (line 152): icon.stop() ends icon.run(), the main thread returns
\* and the daemon threads die with the process.
Exit ==
    /\ running
    /\ TrayFree
    /\ Terminate

\* The process is killed from outside.
Kill ==
    /\ running
    /\ Terminate

(* ------------------------------------------------------------------ *)
(* show_notification (lines 48-91) and open_dashboard_alert (93-98)     *)
(* ------------------------------------------------------------------ *)

\* The "View Details" button exists (line 79)
HasViewButton(p) == Truthy(p.alert_id)

\* A bug: the identity is left out of the URL.
UrlWithoutIdentity(alert_id) == DASHBOARD_URL \o "/alert/"

\* f"{DASHBOARD_URL}/alert/{alert_id}" (line 95)
AlertUrl(alert_id) == DASHBOARD_URL \o "/alert/" \o PyStr(alert_id)

\* The bag with one copy of p replaced by q.
Replaced(bag, p, q) == (bag (-) SetToBag({p})) (+) SetToBag({q})

\* "Dismiss" (line 75): popup.destroy
Dismiss(p) ==
    /\ running
    /\ p.popup
    /\ ui < MaxUi
    /\ ui' = ui + 1
    /\ popups' = Replaced(popups, p, [p EXCEPT !.popup = FALSE])
    /\ UNCHANGED <<running, seen_alerts, last_check_time, browser, cyc>>

\* "View Details" (lines 80-81, 93-98)
ViewDetails(p) ==
    /\ running
    /\ p.popup
    /\ HasViewButton(p)
    /\ ui < MaxUi
    /\ ui' = ui + 1
    /\ browser' = AlertUrl(p.alert_id)
    /\ popups' = Replaced(popups, p, [p EXCEPT !.popup = FALSE])
    /\ UNCHANGED <<running, seen_alerts, last_check_time, cyc>>

\* The call p after line 88: popup.destroy() and notification_window.destroy();
\* mainloop (line 91) returns and show_notification ends. The callback of the
\* timer is left pending unless the timer's interpreter goes with the root.
ClosedWithRoot(p) ==
    [p EXCEPT !.popup = FALSE, !.root = FALSE, !.dflt = FALSE,
              !.timer = @ /\ ~p.dflt]

\* A window of another call when the default root is destroyed: the popups are
\* its children and are destroyed with it (Tk.destroy), and their timers are
\* gone with its interpreter. The hidden root of the other call stays.
Orphaned(q) == [q EXCEPT !.popup = FALSE, !.timer = FALSE]

\* The window manager's close button (line 88).
CloseWindow(p) ==
    /\ running
    /\ p.popup
    /\ ui < MaxUi
    /\ ui' = ui + 1
    /\ popups' = IF p.dflt
                  THEN BagOfAll(Orphaned, popups (-) SetToBag({p}))
                         (+) SetToBag({ClosedWithRoot(p)})
                  ELSE Replaced(popups, p, ClosedWithRoot(p))
    /\ UNCHANGED <<running, seen_alerts, last_check_time, browser, cyc>>

\* The timer of line 85 expires after 15 s: popup.destroy. popup.destroy has
\* deleted the callback of a popup that is closed already, and the timer then
\* calls a command that is gone (a background error of the interpreter).
AutoClose(p) ==
    /\ running
    /\ p.timer
    /\ p.popup => ui < MaxUi
    /\ ui' = IF p.popup THEN ui + 1 ELSE ui
    /\ popups' = Replaced(popups, p, [p EXCEPT !.popup = FALSE, !.timer = FALSE])
    /\ UNCHANGED <<running, seen_alerts, last_check_time, browser, cyc>>

(* ------------------------------------------------------------------ *)
(* The program                                                          *)
(* ------------------------------------------------------------------ *)

\* alert_check_thread (lines 163-166)
TimerTick == CheckCall("sched")

Next ==
    \/ TimerTick
    \/ CheckNow
    \/ \E t \in Threads : CheckAlert(t)
    \/ \E t \in Threads : CheckNotify(t)
    \/ \E t \in Threads : CheckFinish(t)
    \/ \E t \in Threads : CheckReturn(t)
    \/ OpenDashboard
    \/ About
    \/ Exit
    \/ Kill
    \/ \E p \in DOMAIN popups : Dismiss(p)
    \/ \E p \in DOMAIN popups : ViewDetails(p)
    \/ \E p \in DOMAIN popups : CloseWindow(p)
    \/ \E p \in DOMAIN popups : AutoClose(p)

Spec == Init /\ [][Next]_vars

\* The thread of alert_check_thread is scheduled: whatever step its code is
\* at is eventually taken (requests.get returns within its timeout, sleep
\* returns after CHECK_INTERVAL).
PollerFairness ==
    /\ WF_vars(TimerTick)
    /\ WF_vars(CheckAlert("sched") \/ CheckFinish("sched"))
    /\ WF_vars(CheckNotify("sched"))
    /\ WF_vars(CheckReturn("sched"))

LiveSpec == Init /\ [][Next]_vars /\ PollerFairness

(* ------------------------------------------------------------------ *)
(* Formatting one new alert, over a wider set of records                *)
(* ------------------------------------------------------------------ *)

Chars50 == "certutil -urlcache -split -f http://10.0.0.1/a.exe"

\* Command lines of 3, 49, 50, 51 and 52 characters; JSON null; "absent"
\* for a record without the field.
FmtCommands ==
    {StrV("cmd"), StrV(SubSeq(Chars50, 1, 49)), StrV(Chars50),
     StrV(Chars50 \o "X"), StrV(Chars50 \o "XY"), NoneV, [kind |-> "absent"]}

FmtPaths ==
    {StrV("C:\\Windows\\System32\\certutil.exe"), StrV("certutil.exe"),
     StrV("C:\\Windows\\"), StrV(""), NoneV, [kind |-> "absent"]}

FmtReasons ==
    {StrV("Suspicious certutil execution"), NoneV, [kind |-> "absent"]}

\* The record with the fields given, without those that are "absent".
MakeAlert(path, command, reason) ==
    LET given == [executable_path |-> path, command_line |-> command,
                  reason |-> reason]
        there == {k \in DOMAIN given : given[k].kind # "absent"}
    IN  [k \in there \cup {"process_id", "timestamp"} |->
            IF k = "process_id" THEN IntV(1234)
            ELSE IF k = "timestamp" THEN StrV("t1")
            ELSE given[k]]

FmtAlerts ==
    {MakeAlert(path, command, reason) :
        path \in FmtPaths, command \in FmtCommands, reason \in FmtReasons}

\* The timer loop's cycle is at line 116 with a new record of FmtAlerts.
FmtInit ==
    /\ running = TRUE
    /\ seen_alerts = {}
    /\ last_check_time = 0
    /\ popups = Shown(EmptyBag, StartupPopup)
    /\ browser = ""
    /\ ui = 0
    /\ \E alert \in FmtAlerts :
         cyc = [t \in Threads |->
                  IF t = "sched"
                  THEN [Idle EXCEPT !.pc = "new", !.status = HTTP_OK,
                                    !.alert = alert, !.onlyOld = FALSE]
                  ELSE Idle]

FmtNext == CheckNotify("sched") \/ CheckFinish("sched")

FmtSpec == FmtInit /\ [][FmtNext]_vars

(* ------------------------------------------------------------------ *)
(* Properties                                                           *)
(* ------------------------------------------------------------------ *)

\* The notifications dispatched so far with the identity alert_id, whatever
\* has become of their windows.
NotifiedFor(alert_id) ==
    BagCardinality([p \in {q \in DOMAIN popups : q.alert_id = alert_id}
                      |-> popups[p]])

\* alert.get('timestamp', '') as a value
TimestampOf(alert) == DictGet(alert, "timestamp", StrV(""))

\* The five fields of an alert record
AlertFields ==
    {"process_id", "executable_path", "command_line", "reason", "timestamp"}

\* C1 (as claimed): over any interleaving of scheduled and forced poll cycles,
\* at most one notification is dispatched for an alert identity (a process_id
\* and timestamp pair), however often the backend returns the record.
C1_AtMostOnce ==
    \A p \in DOMAIN popups : Truthy(p.alert_id) => NotifiedFor(p.alert_id) <= 1

\* C2 (as claimed): records whose timestamps differ never collide: handling
\* one record (lines 116-134) never makes a record with another timestamp,
\* new until then, count as already seen.
C2_DistinctTimestamps ==
    [][\A t \in Threads, b \in Alerts :
          ( /\ cyc[t].pc = "new"
            /\ cyc'[t].pc # "new"
            /\ HasProcessId(b)
            /\ TimestampOf(b) # TimestampOf(cyc[t].alert)
            /\ IsNewAlert(AlertId(b), seen_alerts) )
          => IsNewAlert(AlertId(b), seen_alerts')]_vars

\* A cycle whose request failed in transport (no response) or got a status
\* other than 200.
FailedRequest(c) == c.pc # "idle" /\ c.status # HTTP_OK

\* C3: a cycle whose request fails in transport or gets a status other than
\* 200 goes straight to `return True`; no step of it changes seen_alerts,
\* the notifications or last_check_time. last_check_time changes only in the
\* step that ends the loop of a cycle whose response had status 200.
C3_FailedCycle ==
    [][running' =>
         /\ \A t \in Threads :
               (cyc'[t] # cyc[t] /\ (FailedRequest(cyc[t]) \/ FailedRequest(cyc'[t])))
               => /\ UNCHANGED <<seen_alerts, popups, last_check_time>>
                  /\ FailedRequest(cyc'[t]) => cyc'[t].pc = "ret"
                  /\ FailedRequest(cyc[t]) => cyc'[t] = Idle
         /\ last_check_time' # last_check_time
               => \E t \in Threads :
                     /\ cyc[t].pc = "loop" /\ cyc[t].status = HTTP_OK
                     /\ cyc'[t].pc = "ret" /\ cyc'[t].outcome = "ok"]_vars

\* C3's case: a request has failed while there were identities and a check
\* time to keep.
C3_Witness ==
    /\ seen_alerts # {}
    /\ last_check_time > 0
    /\ \E t \in Threads : FailedRequest(cyc[t]) /\ cyc[t].status # 0
    /\ \E t \in Threads : FailedRequest(cyc[t]) /\ cyc[t].status = 0

\* C4: check_for_alerts never lets an exception out, and while the process
\* runs the timer loop is again and again between two cycles and again and
\* again in one: every cycle, failed or not, is followed by another.
C4_PollLoopLive ==
    /\ [](\A t \in Threads : cyc[t].pc # "dead")
    /\ []<>(~running \/ cyc["sched"].pc = "idle")
    /\ []<>(~running \/ cyc["sched"].pc # "idle")

\* C4's case: the timer loop's cycle has caught an exception raised on a
\* record and is returning.
C4_Witness ==
    /\ cyc["sched"].pc = "ret"
    /\ cyc["sched"].outcome = "error"
    /\ cyc["sched"].alert # NoAlert

\* C5 (as claimed): a record that lacks one of its fields does not abort its
\* own processing nor that of the records after it: no cycle is in the
\* exception handler on a record that lacks a field.
C5_MissingFieldsTolerated ==
    \A t \in Threads :
        (cyc[t].pc = "ret" /\ cyc[t].outcome = "error" /\ cyc[t].alert # NoAlert)
        => AlertFields \ {"reason", "timestamp"} \subseteq DOMAIN cyc[t].alert

\* The notifications that a step has added.
NewPopups ==
    {p \in DOMAIN popups' : CopiesIn(p, popups') > CopiesIn(p, popups)}

\* `text` ends with `tail`
EndsWith(text, tail) ==
    /\ Len(text) >= Len(tail)
    /\ SubSeq(text, Len(text) - Len(tail) + 1, Len(text)) = tail

\* The command line as the claim has it shown: the first 50 characters and
\* "..." when it is longer than 50, all of it and no marker otherwise.
ShownCommand(command) ==
    IF Len(command) >= 51
    THEN SubSeq(command, 1, 50) \o "..."
    ELSE command

\* C6: the body of the notification of a new alert ends with "Command: " and
\* the command line, cut to its first 50 characters plus "..." exactly when
\* it is longer than 50.
C6_Truncation ==
    [][\A t \in Threads :
          (cyc[t].pc = "new" /\ cyc'[t] # cyc[t]) =>
             \A p \in NewPopups :
                 EndsWith(p.message,
                          "Command: " \o ShownCommand(Command(cyc[t].alert).s))]_vars

\* C6's case: a notification shows a command line of 51 characters cut to 50.
C6_Witness ==
    \E p \in DOMAIN popups :
        EndsWith(p.message, "Command: " \o Chars50 \o "...")

\* C7: seen_alerts only grows while the process runs: no step removes an
\* identity.
C7_SeenMonotonic ==
    [][running' => seen_alerts \subseteq seen_alerts']_vars

\* C7's case: identities are in the set, and a failed cycle and a user action
\* have happened since.
C7_Witness ==
    /\ seen_alerts # {}
    /\ ui > 0
    /\ \E t \in Threads : cyc[t].pc = "ret" /\ cyc[t].outcome # "ok"

\* C8: while every record of the response of a forced cycle has had its
\* identity in seen_alerts already, no step of that cycle changes seen_alerts
\* or dispatches a notification.
C8_ForcedNoNewData ==
    [][(running' /\ cyc'["forced"] # cyc["forced"]
          /\ cyc["forced"].onlyOld /\ cyc'["forced"].onlyOld)
       => UNCHANGED <<seen_alerts, popups>>]_vars

\* C8's case: after the timer loop's cycle, a forced cycle has been through a
\* response of records that were all seen already.
C8_Witness ==
    /\ cyc["sched"].pc = "idle"
    /\ seen_alerts # {}
    /\ cyc["forced"].pc = "ret"
    /\ cyc["forced"].outcome = "ok"
    /\ cyc["forced"].n > 0
    /\ cyc["forced"].onlyOld

\* `title` is "LOLBin Alert: " and the last backslash-separated component of
\* `path`.
IsTitleFor(title, path) ==
    \E k \in 0 .. Len(path) :
        LET name == SubSeq(path, k + 1, Len(path))
        IN /\ title = "LOLBin Alert: " \o name
           /\ k = 0 \/ SubSeq(path, k, k) = "\\"
           /\ \A i \in 1 .. Len(name) : SubSeq(name, i, i) # "\\"

\* The executable_path of a record is there and is a string.
HasPath(alert) ==
    "executable_path" \in DOMAIN alert /\ IsStr(alert["executable_path"])

\* C9 (as claimed): the cycle that finds a record with an executable_path to
\* be new dispatches exactly one notification for it, titled "LOLBin Alert: "
\* and the last component of the path.
C9_TitledOnce ==
    [][\A t \in Threads :
          (running' /\ cyc[t].pc = "new" /\ cyc'[t].pc # "new"
             /\ HasPath(cyc[t].alert))
          => \E p \in NewPopups :
                /\ NewPopups = {p}
                /\ CopiesIn(p, popups') = CopiesIn(p, popups) + 1
                /\ p.alert_id = StrV(AlertId(cyc[t].alert))
                /\ IsTitleFor(p.title, cyc[t].alert["executable_path"].s)]_vars

\* The part of C9 that the code keeps: a notification that is dispatched for
\* such a record has that title.
C9_TitleWhenDispatched ==
    [][\A t \in Threads :
          (cyc[t].pc = "new" /\ cyc'[t] # cyc[t] /\ HasPath(cyc[t].alert))
          => \A p \in NewPopups :
                IsTitleFor(p.title, cyc[t].alert["executable_path"].s)]_vars

\* C10 (as claimed): every identity in seen_alerts has had a notification
\* dispatched for it.
C10_SeenImpliesNotified ==
    \A alert_id \in seen_alerts : NotifiedFor(StrV(alert_id)) >= 1

\* The invocations of check_for_alerts in progress, over all callers.
CallsInProgress == cyc["sched"].calls + cyc["forced"].calls

\* C11 (as claimed): at no time are two invocations of check_for_alerts in
\* progress, counting those of the timer loop and those of "Check for Alerts
\* Now".
C11_NoOverlap == CallsInProgress <= 1

\* C11 (amended): no caller has two invocations of check_for_alerts in
\* progress: the cycles of the timer loop do not overlap each other, nor do
\* the forced ones; at most one of each kind is in progress.
C11_NoOverlapPerCaller ==
    /\ \A t \in Threads : cyc[t].calls <= 1
    /\ \A t \in Threads : cyc[t].calls = 1 <=> cyc[t].pc # "idle"

\* C11's case: a cycle of the timer loop and a forced cycle are both past
\* their request, each on a record of its response.
C11_Witness ==
    /\ cyc["sched"].calls = 1 /\ cyc["sched"].pc = "new"
    /\ cyc["forced"].calls = 1 /\ cyc["forced"].pc = "new"

\* The notifications that a step has added carry the identity alert_id.
OnlyDispatched(alert_id) ==
    \A p \in NewPopups : p.alert_id = StrV(alert_id)

\* C12: a cycle goes through the records of its response one by one in the
\* order of the response: its position moves on by one record at a time, an
\* identity is inserted and a notification dispatched only for the record at
\* its position, and the position moves past a new record only when that
\* record's identity is in and its notification is out. So of two new
\* records A before B, A's identity and notification come before B's.
C12_InOrder ==
    [][\A t \in Threads :
          (running' /\ cyc[t].pc \in {"loop", "new"} /\ cyc'[t] # cyc[t]) =>
             /\ cyc'[t].n \in {cyc[t].n, cyc[t].n + 1}
             /\ cyc[t].pc = "loop" => UNCHANGED <<seen_alerts, popups>>
             /\ cyc[t].pc = "new" =>
                   /\ seen_alerts' = seen_alerts \cup {AlertId(cyc[t].alert)}
                   /\ OnlyDispatched(AlertId(cyc[t].alert))
                   /\ cyc'[t].n = cyc[t].n + 1 =>
                         /\ NewPopups # {}
                         /\ cyc'[t].pc = "loop"]_vars

\* C12's case: the timer loop's cycle is at the second record of its
\* response, which is new, and the first record, new as well, has its
\* identity in and its notification out.
C12_Witness ==
    /\ cyc["sched"].pc = "new"
    /\ cyc["sched"].n = 1
    /\ cyc["forced"].pc = "idle"
    /\ AlertId(cyc["sched"].alert) \notin seen_alerts
    /\ \E alert_id \in seen_alerts : NotifiedFor(StrV(alert_id)) = 1
    /\ NotifiedFor(StrV(AlertId(cyc["sched"].alert))) = 0

\* A cycle of caller t that is in progress can take its next step.
CanGoOn(t) ==
    ENABLED (CheckAlert(t) \/ CheckNotify(t) \/ CheckFinish(t) \/ CheckReturn(t))

\* The popups of alerts that are open.
OpenAlertPopups == {p \in DOMAIN popups : p.popup /\ Truthy(p.alert_id)}

\* C13: the notification of a new alert blocks neither the poll cycle nor
\* another popup. A cycle in progress can always take its next step, whatever
\* popups are open; no step of a cycle closes or changes a popup that is
\* there; and with no popup ever dismissed the timer loop's cycle still ends
\* and another starts.
C13_NonBlocking ==
    /\ [](\A t \in Threads : (running /\ cyc[t].pc # "idle") => CanGoOn(t))
    /\ [][\A t \in Threads :
             (running' /\ cyc'[t] # cyc[t]) =>
                \A p \in DOMAIN popups : CopiesIn(p, popups') >= CopiesIn(p, popups)]_vars
    /\ (cyc["sched"].pc = "new") ~> (~running \/ cyc["sched"].pc = "idle")
    /\ (cyc["sched"].pc = "idle") ~> (~running \/ cyc["sched"].pc # "idle")

\* C13's case: a response with two new alerts has been gone through, no
\* popup has been closed, and the popups of both alerts are open together
\* with the startup popup.
C13_Witness ==
    /\ cyc["sched"].pc = "ret" /\ cyc["sched"].outcome = "ok"
    /\ cyc["sched"].n = 2
    /\ cyc["forced"].pc = "idle"
    /\ ui = 0
    /\ Cardinality(OpenAlertPopups) = 2
    /\ \A p \in DOMAIN popups : p.popup

\* A step in which the timer of line 85 expires on a popup that is closed
\* already.
LateExpiry ==
    \E p \in DOMAIN popups :
        /\ ~p.popup /\ p.timer
        /\ ui' = ui
        /\ popups' = Replaced(popups, p, [p EXCEPT !.timer = FALSE])

\* The part of C14 that the code keeps: a popup that is open has its timer
\* pending and the default root, whose interpreter runs the timer, alive: the
\* timer closes it if nothing else does.
C14_OpenHasTimer ==
    \A p \in DOMAIN popups : p.popup => (p.timer /\ HasDefaultRoot(popups))

\* C14 (as claimed): every popup that is open is closed by the user or else
\* by its timer, and nothing acts on a popup that is closed: the timer does
\* not expire on it.
C14_ClosedOnce ==
    /\ [](\A p \in DOMAIN popups : p.popup => p.timer)
    /\ [][running' => ~LateExpiry]_vars

\* The popup p, if open, lets the user invoke "View Details".
OffersViewDetails(p) == p.popup /\ HasViewButton(p)

\* The popups that the program dispatches without an identity.
PlainTitles == {"LOLBin Monitor Active", "About LOLBin Monitor"}

\* C15: a popup offers "View Details" exactly when show_notification was
\* given an identity: the popups of alerts do, the startup and About popups
\* do not; and a browser page other than the dashboard's front page is opened
\* only by "View Details" on an open popup of an alert, with the URL
\* "http://localhost:8080/alert/" and that popup's identity, in a step that
\* closes that popup and no other.
C15_ViewDetails ==
    /\ [](\A p \in DOMAIN popups :
             /\ HasViewButton(p) <=> p.alert_id # NoneV
             /\ p.title \in PlainTitles <=> p.alert_id = NoneV
             /\ p.alert_id # NoneV =>
                   /\ p.alert_id.kind = "str"
                   /\ SubSeq(p.alert_id.s, 1, 6) = "alert-"
                   /\ SubSeq(p.title, 1, 14) = "LOLBin Alert: ")
    /\ [][(running' /\ browser' # browser) =>
             \/ browser' = "http://localhost:8080" /\ popups' = popups
             \/ \E p \in DOMAIN popups :
                   /\ OffersViewDetails(p)
                   /\ browser' = "http://localhost:8080/alert/" \o p.alert_id.s
                   /\ popups' = Replaced(popups, p, [p EXCEPT !.popup = FALSE])]_vars

\* C15's case: "View Details" has been invoked on the popup of an alert: the
\* browser is on that alert's page and the popup is closed, while the startup
\* popup is still open.
C15_Witness ==
    \E p \in DOMAIN popups :
        /\ p.alert_id # NoneV
        /\ ~p.popup
        /\ browser = "http://localhost:8080/alert/" \o p.alert_id.s
        /\ \E q \in DOMAIN popups : q.alert_id = NoneV /\ q.popup

\* Nothing of the process is left: no cycle in progress, no window, no
\* identity.
NothingLeft ==
    /\ \A t \in Threads : cyc[t] = Idle
    /\ popups = EmptyBag
    /\ seen_alerts = {}

\* A step of a cycle that ends it without success: a request that failed or
\* an exception that was caught.
FailsCycle(t) ==
    cyc[t].pc # "ret" /\ cyc'[t].pc = "ret" /\ cyc'[t].outcome # "ok"

\* C16: the process is Running or Terminated; a cycle that fails leaves it
\* Running; Terminated is absorbing; in the step to Terminated all the
\* process's work ends with it, and once Terminated no cycle starts, no
\* notification is dispatched and nothing else happens.
C16_ProcessStates ==
    /\ [](running \in BOOLEAN)
    /\ [](~running => NothingLeft)
    /\ [][~running => (~running' /\ UNCHANGED vars)]_vars
    /\ [][\A t \in Threads : (running /\ FailsCycle(t)) => running']_vars

\* C16's case: the process is Terminated, after a user's action on the menu
\* or a popup.
C16_Witness == ~running /\ ui = MaxUi /\ browser # ""

\* C17 (as claimed): the tray's thread does none of the work itself, so
\* while the process runs it can serve a menu action such as Exit, whatever
\* menu action was invoked before, without waiting for a request to return
\* or for a popup to be closed.
C17_TrayNeverBlocked == running => ENABLED Exit

\* The part of C17 that the code keeps: the notifications of alerts and the
\* startup notification run on threads of their own, and the timer loop's
\* cycles on the polling thread; they do not keep the tray from serving.
C17_BackgroundWork ==
    /\ \A p \in DOMAIN popups :
          p.thread = "tray" <=> p.title = "About LOLBin Monitor"
    /\ (running /\ ~ENABLED Exit) =>
          \/ cyc["forced"].pc # "idle"
          \/ \E p \in DOMAIN popups : p.title = "About LOLBin Monitor" /\ p.root

\* The calls of show_notification that have not returned: their threads are
\* alive.
LiveNotifiers ==
    BagCardinality([p \in {q \in DOMAIN popups : q.root} |-> popups[p]])

\* C18 (as claimed): once the popup of a call of show_notification is closed,
\* by whichever path, the hidden root of the call is destroyed too, mainloop
\* returns and the thread of the call ends: the calls that have not returned
\* are those whose popup is open.
C18_NotifierTerminates ==
    \A p \in DOMAIN popups : ~p.popup => ~p.root

\* The part of C18 that the code keeps: the window's close button ends the
\* call; after it the root is gone and so is the default root if it was this
\* one.
C18_CloseButtonEnds ==
    [][\A p \in DOMAIN popups :
          (running' /\ p.popup /\ ui' = ui + 1 /\ browser' = browser
             /\ CopiesIn(ClosedWithRoot(p), popups') > CopiesIn(ClosedWithRoot(p), popups))
          => LiveNotifiers' = LiveNotifiers - 1]_vars

\* The notifications in `bag` that carry the identity alert_id.
NotifiedIn(bag, alert_id) ==
    BagCardinality([p \in {q \in DOMAIN bag : q.alert_id = alert_id}
                      |-> bag[p]])

\* No popup that is there is taken away or changed by the step.
PopupsKept ==
    \A p \in DOMAIN popups : CopiesIn(p, popups') >= CopiesIn(p, popups)

\* The part of C19 that the code keeps: the step in which a record raises
\* keeps the identities and the notifications there are, leaves
\* last_check_time and the position in the response as they are, and the
\* cycle then only returns: no further record is taken.
C19_CutShort ==
    /\ [][\A t \in Threads :
             (running' /\ cyc[t].pc \in {"loop", "new"} /\ cyc'[t].pc = "ret"
                /\ cyc'[t].outcome = "error")
             => /\ seen_alerts \subseteq seen_alerts'
                /\ PopupsKept
                /\ last_check_time' = last_check_time
                /\ cyc'[t].n = cyc[t].n]_vars
    /\ [][\A t \in Threads :
             (running' /\ cyc[t].pc = "ret" /\ cyc'[t] # cyc[t])
             => /\ cyc'[t] = Idle
                /\ UNCHANGED <<seen_alerts, popups, last_check_time>>]_vars

\* C19 (as claimed): a cycle in which a record raises is cut short and not
\* rolled back, and a new record that it did not reach is notified by the
\* later cycle that takes it: when a cycle has found a record new, a
\* notification for its identity has been dispatched by the time the cycle
\* leaves the record.
C19_PartialFailure ==
    [][\A t \in Threads :
          /\ (running' /\ cyc[t].pc = "ret" /\ cyc'[t] # cyc[t])
                => (cyc'[t] = Idle /\ last_check_time' = last_check_time)
          /\ (running' /\ cyc[t].pc = "new" /\ cyc'[t].pc # "new")
                => /\ PopupsKept
                   /\ NotifiedIn(popups', StrV(AlertId(cyc[t].alert))) >= 1]_vars

====
